---- MODULE Spec2Model ----
(***************************************************************************)
(* Model of the win-rate overlay (src/main.js).  The file holds the two    *)
(* deployments of the page script: Variant A (JSON-RPC batches, lines      *)
(* 1-221) and Variant B (messageType/payload envelopes, lines 223-417).    *)
(* Definitions of Variant A carry the suffix A, those of Variant B the     *)
(* suffix B, because the two scripts use the same function names.          *)
(*                                                                         *)
(* Every socket event handler runs to completion (single-threaded event    *)
(* loop), so each handler is one action.  A handler is an operator on a    *)
(* record s holding the page's globals plus a trace of what the handler    *)
(* did (battle results delivered, renders, console output, fault).         *)
(***************************************************************************)
EXTENDS Integers, Sequences, FiniteSets, TLC

(***************************************************************************)
(* Bounds                                                                  *)
(***************************************************************************)
MaxGames == 2      \* messages are accepted while fewer games are counted
MaxBatch == 2      \* longest JSON-RPC batch array (Variant A)
MaxList  == 2      \* longest battleResults list of a get_battle_results reply

(***************************************************************************)
(* Program constants                                                       *)
(***************************************************************************)
RANDOM_BATTLE_A == 1
GRAND_BATTLE_A  == 24
RANDOM_BATTLE_B == 1
GRAND_BATTLE_B  == 24

(***************************************************************************)
(* JavaScript values as they come out of JSON.parse                        *)
(***************************************************************************)
Undefined == [t |-> "undefined"]
Null      == [t |-> "null"]
Num(n)    == [t |-> "number", n |-> n]
Str(x)    == [t |-> "string", s |-> x]
Obj(f)    == [t |-> "object", f |-> f]
Arr(a)    == [t |-> "array", a |-> a]
NoFields  == [x \in {} |-> Undefined]

\* ToBoolean, as applied by `&&` and `if`
Truthy(v) ==
    CASE v.t = "undefined" -> FALSE
      [] v.t = "null"      -> FALSE
      [] v.t = "number"    -> v.n # 0
      [] v.t = "string"    -> v.s # ""
      [] OTHER             -> TRUE

\* v.name for a v that is neither undefined nor null (those throw, see Throws)
Prop(v, name) ==
    IF v.t = "object" /\ name \in DOMAIN v.f THEN v.f[name] ELSE Undefined

\* reading a property of v raises a TypeError
Throws(v) == v.t \in {"undefined", "null"}

\* a === b; two objects or arrays of one parsed frame are never the same reference
StrictEq(a, b) ==
    /\ a.t = b.t
    /\ CASE a.t = "number" -> a.n = b.n
         [] a.t = "string" -> a.s = b.s
         [] a.t \in {"undefined", "null"} -> TRUE
         [] OTHER -> FALSE

\* the exception a property read of undefined or null raises
TypeError == [t |-> "TypeError"]

\* v.name as JavaScript evaluates it, the exception included
Read(v, name) == IF v = TypeError \/ Throws(v) THEN TypeError ELSE Prop(v, name)

\* a && a.name
AndProp(a, name) == IF Truthy(a) THEN Read(a, name) ELSE a

\* the text of a frame on the wire: well-formed JSON of a value, or garbage
JSON_stringify(v) == [wellFormed |-> TRUE, value |-> v]
Malformed         == [wellFormed |-> FALSE, value |-> Undefined]
JSON_parse(text)  ==
    IF text.wellFormed THEN [ok |-> TRUE, value |-> text.value]
                       ELSE [ok |-> FALSE, value |-> Undefined]

(***************************************************************************)
(* Numbers: the quotient a / b of two non-negative integers, kept as the   *)
(* reduced fraction; 0/0 is NaN and a/0 is Infinity.                       *)
(***************************************************************************)
RECURSIVE GCD(_, _)
GCD(a, b) == IF b = 0 THEN a ELSE GCD(b, a % b)

NaN      == [n |-> 0, d |-> 0]
Infinity == [n |-> 1, d |-> 0]
Divide(a, b) ==
    IF b = 0 THEN (IF a = 0 THEN NaN ELSE Infinity)
    ELSE [n |-> a \div GCD(a, b), d |-> b \div GCD(a, b)]

(***************************************************************************)
(* The renderer (./renderer.js): pure presentation functions.              *)
(***************************************************************************)
renderTitle(winRate)   == [out |-> "title", winRate |-> winRate]
renderContent(winRate, showHint) ==
    [out |-> "content", winRate |-> winRate, disconnected |-> showHint]
renderFavicon(winRate) == [out |-> "favicon", winRate |-> winRate]


(***************************************************************************)
(* State.  The page's globals (one script is deployed per page: variant),  *)
(* what the page shows and what it wrote to the socket; then the record of *)
(* the last socket event: its kind, its data, and what its handler did.    *)
(***************************************************************************)
VARIABLES
    variant,               \* "A" or "B": which of the two scripts the page runs
    victoryCount,          \* let victoryCount
    lossCount,             \* let lossCount
    showDisconnectedHint,  \* let showDisconnectedHint
    document,              \* document.title, document.body.innerHTML, #favicon.href
    sent,                  \* the frames written with ws.send, in order
    opened,                \* the socket's open event has been dispatched
    event,                 \* kind of the last event: "init", "open", "message", "close", "error"
    data,                  \* event.data of the last message event
    delivered,             \* the arguments of the last handler's onBattleResult calls
    renders,               \* the inputs of the last handler's render calls
    logged,                \* what the last handler wrote with console.error
    fault,                 \* the last handler ended by an uncaught exception
    inScopeDeliveries      \* history: how many results with bonusType 1 or 24
                           \* have been passed to onBattleResult so far

vars == <<variant, victoryCount, lossCount, showDisconnectedHint, document, sent,
          opened, event, data, delivered, renders, logged, fault, inScopeDeliveries>>

\* the globals as a handler finds them, with an empty trace
Entry ==
    [victoryCount |-> victoryCount, lossCount |-> lossCount,
     showDisconnectedHint |-> showDisconnectedHint, document |-> document,
     sent |-> sent, delivered |-> <<>>, renders |-> <<>>, logged |-> <<>>,
     fault |-> FALSE]

\* an uncaught exception ends the handler; what it changed so far stays
Throw(s) == [s EXCEPT !.fault = TRUE]

(***************************************************************************)
(* Variant A (src/main.js lines 1-221)                                     *)
(***************************************************************************)
getBattleTypeA(battleResult) ==
    AndProp(AndProp(battleResult, "common"), "bonusType")

isRandomBattleA(battleResult) ==
    LET battleType == getBattleTypeA(battleResult)
    IN  StrictEq(battleType, Num(RANDOM_BATTLE_A))
          \/ StrictEq(battleType, Num(GRAND_BATTLE_A))

getWinnerTeamA(battleResult) ==
    AndProp(AndProp(battleResult, "common"), "winnerTeam")

\* mutant: the team is read from personal.team instead of personal.avatar.team
getTeamA_noAvatar(battleResult) ==
    AndProp(AndProp(battleResult, "personal"), "team")

getTeamA(battleResult) ==
    AndProp(AndProp(AndProp(battleResult, "personal"), "avatar"), "team")

isVictoryA(battleResult) ==
    StrictEq(getTeamA(battleResult), getWinnerTeamA(battleResult))

\* mutant: the hint is shown once; rendering it clears the flag
renderA_oneShotHint(s) ==
    LET winRate == Divide(s.victoryCount, s.lossCount + s.victoryCount)
    IN  [s EXCEPT
           !.document = [title   |-> renderTitle(winRate),
                         body    |-> renderContent(winRate, s.showDisconnectedHint),
                         favicon |-> renderFavicon(winRate)],
           !.renders  = Append(@, [winRate |-> winRate,
                                   disconnected |-> s.showDisconnectedHint]),
           !.showDisconnectedHint = FALSE]

renderA(s) ==
    LET winRate == Divide(s.victoryCount, s.lossCount + s.victoryCount)
    IN  [s EXCEPT
           !.document = [title   |-> renderTitle(winRate),
                         body    |-> renderContent(winRate, s.showDisconnectedHint),
                         favicon |-> renderFavicon(winRate)],
           !.renders  = Append(@, [winRate |-> winRate,
                                   disconnected |-> s.showDisconnectedHint])]

\* mutant: the handler flips the flag instead of setting it
onDisconnectA_toggle(s) ==
    renderA([s EXCEPT !.showDisconnectedHint = ~@])

onDisconnectA(s) ==
    renderA([s EXCEPT !.showDisconnectedHint = TRUE])

\* mutant: the page is rendered before the counter is updated
onBattleResultA_renderFirst(s, battleResult) ==
    LET called   == [s EXCEPT !.delivered = Append(@, battleResult)]
        rendered == renderA(called)
    IN  IF ~isRandomBattleA(battleResult)
        THEN called
        ELSE IF isVictoryA(battleResult)
             THEN [rendered EXCEPT !.victoryCount = @ + 1]
             ELSE [rendered EXCEPT !.lossCount = @ + 1]

\* mutant: the early return for out-of-scope results is missing
onBattleResultA_noReturn(s, battleResult) ==
    LET called == [s EXCEPT !.delivered = Append(@, battleResult)]
    IN  renderA(IF isVictoryA(battleResult)
                THEN [called EXCEPT !.victoryCount = @ + 1]
                ELSE [called EXCEPT !.lossCount = @ + 1])

onBattleResultA(s, battleResult) ==
    LET called == [s EXCEPT !.delivered = Append(@, battleResult)]
    IN  IF ~isRandomBattleA(battleResult)
        THEN called
        ELSE renderA(IF isVictoryA(battleResult)
                     THEN [called EXCEPT !.victoryCount = @ + 1]
                     ELSE [called EXCEPT !.lossCount = @ + 1])

\* for (const battleResult of list) onBattleResult(battleResult)
RECURSIVE ForEachBattleResultA(_, _)
ForEachBattleResultA(s, list) ==
    IF list = <<>> \/ s.fault THEN s
    ELSE ForEachBattleResultA(onBattleResultA(s, Head(list)), Tail(list))

\* mutant: every reply with a result is read as the reply to get_battle_results
onJsonRpcMessage_anyResult(s, message) ==
    IF Throws(message) THEN Throw(s)
    ELSE IF StrictEq(Prop(message, "method"), Str("subscription"))
    THEN LET params == Prop(message, "params")
         IN  IF Throws(params) THEN Throw(s)
             ELSE onBattleResultA(s, Prop(params, "battleResult"))
    ELSE IF Truthy(Prop(message, "result"))
    THEN LET battleResults == Prop(Prop(message, "result"), "battleResults")
         IN  IF battleResults.t # "array" THEN Throw(s)
             ELSE ForEachBattleResultA(s, battleResults.a)
    ELSE IF Truthy(Prop(message, "error"))
    THEN [s EXCEPT !.logged = Append(@, <<"Error:", Prop(message, "error")>>)]
    ELSE s

\* mutant: an error reply to get_battle_results (id 1) resets the session
onJsonRpcMessage_errorResets(s, message) ==
    IF Throws(message) THEN Throw(s)
    ELSE IF StrictEq(Prop(message, "method"), Str("subscription"))
    THEN LET params == Prop(message, "params")
         IN  IF Throws(params) THEN Throw(s)
             ELSE onBattleResultA(s, Prop(params, "battleResult"))
    ELSE IF Truthy(Prop(message, "result")) /\ StrictEq(Prop(message, "id"), Num(1))
    THEN LET battleResults == Prop(Prop(message, "result"), "battleResults")
         IN  IF battleResults.t # "array" THEN Throw(s)
             ELSE ForEachBattleResultA(s, battleResults.a)
    ELSE IF Truthy(Prop(message, "error"))
    THEN LET noted == [s EXCEPT !.logged = Append(@, <<"Error:", Prop(message, "error")>>)]
         IN  IF StrictEq(Prop(message, "id"), Num(1))
             THEN renderA([noted EXCEPT !.victoryCount = 0, !.lossCount = 0])
             ELSE noted
    ELSE s

onJsonRpcMessage(s, message) ==
    IF Throws(message) THEN Throw(s)
    ELSE IF StrictEq(Prop(message, "method"), Str("subscription"))
    THEN LET params == Prop(message, "params")
         IN  IF Throws(params) THEN Throw(s)
             ELSE onBattleResultA(s, Prop(params, "battleResult"))
    ELSE IF Truthy(Prop(message, "result")) /\ StrictEq(Prop(message, "id"), Num(1))
    THEN LET battleResults == Prop(Prop(message, "result"), "battleResults")
         IN  IF battleResults.t # "array" THEN Throw(s)
             ELSE ForEachBattleResultA(s, battleResults.a)
    ELSE IF Truthy(Prop(message, "error"))
    THEN [s EXCEPT !.logged = Append(@, <<"Error:", Prop(message, "error")>>)]
    ELSE s

\* mutant: the exception of one element is swallowed and the loop goes on
RECURSIVE ForEachMessage_continues(_, _)
ForEachMessage_continues(s, parsed) ==
    IF parsed = <<>> THEN s
    ELSE ForEachMessage_continues(onJsonRpcMessage(s, Head(parsed)), Tail(parsed))

\* mutant: the batch is walked from its last element to its first
RECURSIVE ForEachMessage_reversed(_, _)
ForEachMessage_reversed(s, parsed) ==
    IF parsed = <<>> \/ s.fault THEN s
    ELSE ForEachMessage_reversed(onJsonRpcMessage(s, parsed[Len(parsed)]),
                                 SubSeq(parsed, 1, Len(parsed) - 1))

\* for (const message of parsed) onJsonRpcMessage(message)
RECURSIVE ForEachMessage(_, _)
ForEachMessage(s, parsed) ==
    IF parsed = <<>> \/ s.fault THEN s
    ELSE ForEachMessage(onJsonRpcMessage(s, Head(parsed)), Tail(parsed))

onMessageA(s, ev) ==
    LET parsed == JSON_parse(ev.data)
    IN  IF ~parsed.ok THEN Throw(s)
        ELSE IF parsed.value.t = "array"
        THEN ForEachMessage(s, parsed.value.a)
        ELSE onJsonRpcMessage(s, parsed.value)

onOpenA(s) ==
    [s EXCEPT !.sent = Append(@, JSON_stringify(Arr(<<
        Obj([jsonrpc |-> Str("2.0"), method |-> Str("get_battle_results"), id |-> Num(1)]),
        Obj([jsonrpc |-> Str("2.0"), method |-> Str("subscribe"), id |-> Num(2)])>>)))]

(***************************************************************************)
(* Variant B (src/main.js lines 223-417)                                   *)
(***************************************************************************)
getBattleTypeB(battleResult) ==
    AndProp(AndProp(battleResult, "common"), "bonusType")

\* mutant: every battle that has a type is taken for a random battle
isRandomBattleB_anyType(battleResult) ==
    Truthy(getBattleTypeB(battleResult))

\* mutant: grand battles are left out of this variant
isRandomBattleB_onlyRandom(battleResult) ==
    StrictEq(getBattleTypeB(battleResult), Num(RANDOM_BATTLE_B))

isRandomBattleB(battleResult) ==
    LET battleType == getBattleTypeB(battleResult)
    IN  StrictEq(battleType, Num(RANDOM_BATTLE_B))
          \/ StrictEq(battleType, Num(GRAND_BATTLE_B))

getWinnerTeamB(battleResult) ==
    AndProp(AndProp(battleResult, "common"), "winnerTeam")

\* mutant: the team is read without the guards of the && chain
getTeamB_unguarded(battleResult) ==
    Read(Read(Read(battleResult, "personal"), "avatar"), "team")

getTeamB(battleResult) ==
    AndProp(AndProp(AndProp(battleResult, "personal"), "avatar"), "team")

\* mutant: a battle without a winner (winnerTeam 0, a draw) counts as a victory
isVictoryB_drawWins(battleResult) ==
    \/ StrictEq(getWinnerTeamB(battleResult), Num(0))
    \/ StrictEq(getTeamB(battleResult), getWinnerTeamB(battleResult))

isVictoryB(battleResult) ==
    StrictEq(getTeamB(battleResult), getWinnerTeamB(battleResult))

\* mutant: the victories are divided by the losses instead of by all games
renderB_lossRatio(s) ==
    LET winRate == Divide(s.victoryCount, s.lossCount)
    IN  [s EXCEPT
           !.document = [title   |-> renderTitle(winRate),
                         body    |-> renderContent(winRate, s.showDisconnectedHint),
                         favicon |-> renderFavicon(winRate)],
           !.renders  = Append(@, [winRate |-> winRate,
                                   disconnected |-> s.showDisconnectedHint])]

renderB(s) ==
    LET winRate == Divide(s.victoryCount, s.lossCount + s.victoryCount)
    IN  [s EXCEPT
           !.document = [title   |-> renderTitle(winRate),
                         body    |-> renderContent(winRate, s.showDisconnectedHint),
                         favicon |-> renderFavicon(winRate)],
           !.renders  = Append(@, [winRate |-> winRate,
                                   disconnected |-> s.showDisconnectedHint])]

onDisconnectB(s) ==
    renderB([s EXCEPT !.showDisconnectedHint = TRUE])

\* mutant: a victory also takes one loss back
onBattleResultB_zeroSum(s, battleResult) ==
    LET called == [s EXCEPT !.delivered = Append(@, battleResult)]
    IN  IF ~isRandomBattleB(battleResult)
        THEN called
        ELSE renderB(IF isVictoryB(battleResult)
                     THEN [called EXCEPT !.victoryCount = @ + 1, !.lossCount = @ - 1]
                     ELSE [called EXCEPT !.lossCount = @ + 1])

onBattleResultB(s, battleResult) ==
    LET called == [s EXCEPT !.delivered = Append(@, battleResult)]
    IN  IF ~isRandomBattleB(battleResult)
        THEN called
        ELSE renderB(IF isVictoryB(battleResult)
                     THEN [called EXCEPT !.victoryCount = @ + 1]
                     ELSE [called EXCEPT !.lossCount = @ + 1])

\* mutant: a frame that does not parse is treated as a lost connection
onMessageB_parseErrorDisconnects(s, ev) ==
    LET parsed == JSON_parse(ev.data)
        message == parsed.value
    IN  IF ~parsed.ok THEN Throw(onDisconnectB(s))
        ELSE IF Throws(message) THEN Throw(s)
        ELSE IF StrictEq(Prop(message, "messageType"), Str("BATTLE_RESULT"))
        THEN LET payload == Prop(message, "payload")
             IN  IF Throws(payload) THEN Throw(s)
                 ELSE onBattleResultB(s, Prop(payload, "result"))
        ELSE IF StrictEq(Prop(message, "messageType"), Str("ERROR"))
        THEN [s EXCEPT !.logged =
                 Append(@, <<"Protocol Error:", Prop(message, "payload")>>)]
        ELSE s

onMessageB(s, ev) ==
    LET parsed == JSON_parse(ev.data)
        message == parsed.value
    IN  IF ~parsed.ok \/ Throws(message) THEN Throw(s)
        ELSE IF StrictEq(Prop(message, "messageType"), Str("BATTLE_RESULT"))
        THEN LET payload == Prop(message, "payload")
             IN  IF Throws(payload) THEN Throw(s)
                 ELSE onBattleResultB(s, Prop(payload, "result"))
        ELSE IF StrictEq(Prop(message, "messageType"), Str("ERROR"))
        THEN [s EXCEPT !.logged =
                 Append(@, <<"Protocol Error:", Prop(message, "payload")>>)]
        ELSE s

\* mutant: SUBSCRIBE is sent before REPLAY
onOpenB_swapped(s) ==
    LET first == [s EXCEPT !.sent = Append(@, JSON_stringify(
                     Obj([messageType |-> Str("SUBSCRIBE"), payload |-> Obj(NoFields)])))]
    IN  [first EXCEPT !.sent = Append(@, JSON_stringify(
                     Obj([messageType |-> Str("REPLAY"), payload |-> Obj(NoFields)])))]

onOpenB(s) ==
    LET first == [s EXCEPT !.sent = Append(@, JSON_stringify(
                     Obj([messageType |-> Str("REPLAY"), payload |-> Obj(NoFields)])))]
    IN  [first EXCEPT !.sent = Append(@, JSON_stringify(
                     Obj([messageType |-> Str("SUBSCRIBE"), payload |-> Obj(NoFields)])))]

(***************************************************************************)
(* Inbound data: the battle results and frames the server may send.        *)
(* A field whose value is Undefined is left out of the object.             *)
(***************************************************************************)
Fields(f) == [k \in {x \in DOMAIN f : f[x] # Undefined} |-> f[k]]
Object(f) == Obj(Fields(f))

BonusTypes  == {Undefined, Num(1), Num(24), Num(5)}
WinnerTeams == {Undefined, Num(0), Num(1), Num(2)}
Commons ==
    {Undefined} \cup
    {Object([bonusType |-> b, winnerTeam |-> w]) : b \in BonusTypes, w \in WinnerTeams}
Personals ==
    {Undefined, Obj(NoFields), Obj([avatar |-> Obj(NoFields)]),
     Obj([avatar |-> Obj([team |-> Num(1)])]),
     Obj([avatar |-> Obj([team |-> Num(2)])])}

\* every shape of battle result: absent, null, and objects with or without each field
BattleResults ==
    {Undefined, Null} \cup
    {Object([common |-> c, personal |-> p]) : c \in Commons, p \in Personals}

Result(bonusType, winnerTeam, team) ==
    Obj([common   |-> Object([bonusType |-> bonusType, winnerTeam |-> winnerTeam]),
         personal |-> Obj([avatar |-> Object([team |-> team])])])

\* the results that replies and batches carry
ListResults ==
    {Result(Num(1), Num(1), Num(1)), Result(Num(24), Num(2), Num(1)),
     Result(Num(5), Num(1), Num(1))}

RECURSIVE SeqsUpTo(_, _)
SeqsUpTo(S, n) ==
    IF n = 0 THEN {<<>>}
    ELSE SeqsUpTo(S, n - 1) \cup
         {Append(q, x) : q \in {r \in SeqsUpTo(S, n - 1) : Len(r) = n - 1}, x \in S}

Notification(battleResult) ==
    Obj([jsonrpc |-> Str("2.0"), method |-> Str("subscription"),
         params |-> Object([battleResult |-> battleResult])])
ResultsReply(list) ==
    Obj([jsonrpc |-> Str("2.0"), id |-> Num(1),
         result |-> Obj([battleResults |-> Arr(list)])])
SubscribeReply == Obj([jsonrpc |-> Str("2.0"), id |-> Num(2), result |-> Obj(NoFields)])
ErrorReply(id) ==
    Obj([jsonrpc |-> Str("2.0"), id |-> id,
         error |-> Obj([code |-> Num(-32601), message |-> Str("Method not found")])])
NoParams  == Obj([jsonrpc |-> Str("2.0"), method |-> Str("subscription")])
NoResults == Obj([jsonrpc |-> Str("2.0"), id |-> Num(1), result |-> Obj(NoFields)])

MessagesA ==
    {Notification(r) : r \in BattleResults} \cup
    {ResultsReply(list) : list \in SeqsUpTo(ListResults, MaxList)} \cup
    {SubscribeReply, ErrorReply(Num(1)), ErrorReply(Null),
     NoParams, NoResults, Null, Num(7), Obj(NoFields)}

BatchMessages ==
    {Notification(Result(Num(1), Num(1), Num(1))),
     Notification(Result(Num(24), Num(2), Num(1))),
     ResultsReply(<<Result(Num(1), Num(1), Num(1)), Result(Num(5), Num(1), Num(1))>>),
     NoParams, NoResults}

FramesA ==
    {Malformed} \cup {JSON_stringify(m) : m \in MessagesA}
                \cup {JSON_stringify(Arr(b)) : b \in SeqsUpTo(BatchMessages, MaxBatch)}

Envelope(messageType, payload) ==
    Object([messageType |-> messageType, payload |-> payload])

MessagesB ==
    {Envelope(Str("BATTLE_RESULT"), Object([result |-> r])) : r \in BattleResults} \cup
    {Envelope(Str("BATTLE_RESULT"), Undefined),
     Envelope(Str("ERROR"), Obj([message |-> Str("unknown command")])),
     Envelope(Str("ERROR"), Undefined),
     Envelope(Str("PING"), Obj(NoFields)),
     Envelope(Undefined, Undefined), Null, Num(7), Arr(<<>>)}

FramesB == {Malformed} \cup {JSON_stringify(m) : m \in MessagesB}

(***************************************************************************)
(* Reading a battle result as the wire format defines it, field by field   *)
(***************************************************************************)
BonusTypeOf(r)  == Prop(Prop(r, "common"), "bonusType")
WinnerTeamOf(r) == Prop(Prop(r, "common"), "winnerTeam")
TeamOf(r)       == Prop(Prop(Prop(r, "personal"), "avatar"), "team")
InScope(r)      == BonusTypeOf(r) \in {Num(1), Num(24)}
InScopeCount(list) == Cardinality({i \in DOMAIN list : InScope(list[i])})

(***************************************************************************)
(* The page: startup, then the socket's events                             *)
(***************************************************************************)
\* the handler's result becomes the page's state
Commit(s, kind, d) ==
    /\ victoryCount' = s.victoryCount
    /\ lossCount' = s.lossCount
    /\ showDisconnectedHint' = s.showDisconnectedHint
    /\ document' = s.document
    /\ sent' = s.sent
    /\ delivered' = s.delivered
    /\ renders' = s.renders
    /\ logged' = s.logged
    /\ fault' = s.fault
    /\ event' = kind
    /\ data' = d
    /\ inScopeDeliveries' = inScopeDeliveries + InScopeCount(s.delivered)
    /\ UNCHANGED variant

\* lines 32-62 and 254-284: the globals, the first render, the socket
Startup(s) == IF variant = "A" THEN renderA(s) ELSE renderB(s)

Init ==
    /\ variant \in {"A", "B"}
    /\ LET s == Startup([victoryCount |-> 0, lossCount |-> 0,
                         showDisconnectedHint |-> FALSE,
                         document |-> [title |-> Undefined, body |-> Undefined,
                                       favicon |-> Undefined],
                         sent |-> <<>>, delivered |-> <<>>, renders |-> <<>>,
                         logged |-> <<>>, fault |-> FALSE])
       IN  /\ victoryCount = s.victoryCount
           /\ lossCount = s.lossCount
           /\ showDisconnectedHint = s.showDisconnectedHint
           /\ document = s.document
           /\ sent = s.sent
           /\ delivered = s.delivered
           /\ renders = s.renders
           /\ logged = s.logged
           /\ fault = s.fault
    /\ opened = FALSE
    /\ event = "init"
    /\ data = Malformed
    /\ inScopeDeliveries = 0

Games == victoryCount + lossCount

OpenA ==
    /\ variant = "A" /\ ~opened
    /\ opened' = TRUE
    /\ Commit(onOpenA(Entry), "open", data)

OpenB ==
    /\ variant = "B" /\ ~opened
    /\ opened' = TRUE
    /\ Commit(onOpenB(Entry), "open", data)

MessageA ==
    /\ variant = "A" /\ opened /\ Games < MaxGames
    /\ \E d \in FramesA : Commit(onMessageA(Entry, [data |-> d]), "message", d)
    /\ UNCHANGED opened

MessageB ==
    /\ variant = "B" /\ opened /\ Games < MaxGames
    /\ \E d \in FramesB : Commit(onMessageB(Entry, [data |-> d]), "message", d)
    /\ UNCHANGED opened

\* mutant: the close listener sends the handshake again
CloseA_resend ==
    /\ variant = "A"
    /\ Commit(onOpenA(onDisconnectA(Entry)), "close", data)
    /\ UNCHANGED opened

\* ws.addEventListener('close', onDisconnect)
CloseA ==
    /\ variant = "A"
    /\ Commit(onDisconnectA(Entry), "close", data)
    /\ UNCHANGED opened

\* ws.addEventListener('error', onDisconnect)
ErrorA ==
    /\ variant = "A"
    /\ Commit(onDisconnectA(Entry), "error", data)
    /\ UNCHANGED opened

CloseB ==
    /\ variant = "B"
    /\ Commit(onDisconnectB(Entry), "close", data)
    /\ UNCHANGED opened

\* mutant: the error listener sets the flag and does not render
ErrorB_noRender ==
    /\ variant = "B"
    /\ Commit([Entry EXCEPT !.showDisconnectedHint = TRUE], "error", data)
    /\ UNCHANGED opened

ErrorB ==
    /\ variant = "B"
    /\ Commit(onDisconnectB(Entry), "error", data)
    /\ UNCHANGED opened

Next ==
    \/ OpenA \/ OpenB
    \/ MessageA \/ MessageB
    \/ CloseA \/ ErrorA
    \/ CloseB \/ ErrorB

Spec == Init /\ [][Next]_vars

(***************************************************************************)
(* Properties                                                              *)
(***************************************************************************)
AllInScope(list, P(_)) == \A i \in DOMAIN list : InScope(list[i]) => P(list[i])

\* C1: victoryCount + lossCount always equals the number of in-scope results
\* (bonusType 1 or 24) delivered so far; every step raises the two counters
\* together by exactly the number of in-scope results it delivers, never
\* lowers one, a single delivery raises exactly one counter by 1, and a step
\* that delivers no in-scope result changes neither counter.
C1_CountsInScopeDeliveries ==
    /\ [](victoryCount + lossCount = inScopeDeliveries)
    /\ [][/\ victoryCount' >= victoryCount
          /\ lossCount' >= lossCount
          /\ (victoryCount' + lossCount') - (victoryCount + lossCount)
                = InScopeCount(delivered')
          /\ event' # "message" => delivered' = <<>>]_vars

C1_Witness ==
    /\ event = "message"
    /\ Len(delivered) = 2
    /\ InScopeCount(delivered) = 1
    /\ victoryCount + lossCount >= 2

\* C2: a message whose delivered battle results all have a bonusType other
\* than 1 and 24 (or none at all), whatever their teams, leaves victoryCount,
\* lossCount and showDisconnectedHint unchanged.
C2_OutOfScopeChangesNothing ==
    [][(/\ event' = "message"
        /\ delivered' # <<>>
        /\ \A i \in DOMAIN delivered' : ~InScope(delivered'[i]))
       => /\ victoryCount' = victoryCount
          /\ lossCount' = lossCount
          /\ showDisconnectedHint' = showDisconnectedHint]_vars

C2_Witness ==
    /\ event = "message"
    /\ variant = "B"
    /\ delivered = <<Result(Num(5), Num(1), Num(1))>>
    /\ victoryCount + lossCount > 0

SameTeams(r) == TeamOf(r).t = "number" /\ TeamOf(r) = WinnerTeamOf(r)

ScenarioVictoryA ==
    JSON_stringify(Notification(Result(Num(1), Num(1), Num(1))))

\* C3: a message whose in-scope results all have personal.avatar.team equal
\* to common.winnerTeam raises victoryCount by one per in-scope result and
\* leaves lossCount unchanged; the Variant A subscription notification with
\* bonusType 1, winnerTeam 1, team 1 received with both counters at 0 gives
\* victoryCount = 1 and lossCount = 0.
C3_EqualTeamsCountAsVictory ==
    [][/\ (/\ event' = "message"
           /\ AllInScope(delivered', SameTeams))
          => /\ victoryCount' = victoryCount + InScopeCount(delivered')
             /\ lossCount' = lossCount
       /\ (/\ variant = "A" /\ event' = "message" /\ data' = ScenarioVictoryA
           /\ victoryCount = 0 /\ lossCount = 0)
          => (victoryCount' = 1 /\ lossCount' = 0)]_vars

C3_Witness ==
    /\ variant = "A"
    /\ event = "message"
    /\ data = ScenarioVictoryA
    /\ victoryCount = 1
    /\ lossCount = 0

DifferentTeams(r) == TeamOf(r) # WinnerTeamOf(r)

ScenarioLossB ==
    JSON_stringify(Envelope(Str("BATTLE_RESULT"),
                            Obj([result |-> Result(Num(24), Num(2), Num(1))])))

\* C4: a message whose in-scope results all have a team different from the
\* winner team (one of the two may be absent) raises lossCount by one per
\* in-scope result and leaves victoryCount unchanged; the Variant B
\* BATTLE_RESULT frame with bonusType 24, winnerTeam 2, team 1 received with
\* both counters at 0 gives lossCount = 1.
C4_DifferentTeamsCountAsLoss ==
    [][/\ (/\ event' = "message"
           /\ AllInScope(delivered', DifferentTeams))
          => /\ lossCount' = lossCount + InScopeCount(delivered')
             /\ victoryCount' = victoryCount
       /\ (/\ variant = "B" /\ event' = "message" /\ data' = ScenarioLossB
           /\ victoryCount = 0 /\ lossCount = 0)
          => (lossCount' = 1 /\ victoryCount' = 0)]_vars

C4_Witness ==
    /\ variant = "B"
    /\ event = "message"
    /\ data = ScenarioLossB
    /\ lossCount = 1
    /\ victoryCount = 0

TeamAbsent(r) == TeamOf(r) = Undefined \/ WinnerTeamOf(r) = Undefined

\* C5: an in-scope result whose team or winner team is absent, both absent
\* included, is never counted as a victory: a message whose in-scope results
\* all lack one of the two raises lossCount by one per in-scope result and
\* leaves victoryCount unchanged.
C5_AbsentTeamIsNeverAVictory ==
    [][(/\ event' = "message"
        /\ AllInScope(delivered', TeamAbsent))
       => /\ victoryCount' = victoryCount
          /\ lossCount' = lossCount + InScopeCount(delivered')]_vars

Disconnects == {"close", "error"}

\* C6: showDisconnectedHint is false at startup; a close or error event sets
\* it; once it is true it is true in every later state whatever event comes
\* next, and every render made from then on passes disconnected = TRUE to
\* renderContent.
C6_DisconnectedIsPermanent ==
    /\ ~showDisconnectedHint
    /\ [][/\ event' \in Disconnects => showDisconnectedHint'
          /\ showDisconnectedHint
               => /\ showDisconnectedHint'
                  /\ \A i \in DOMAIN renders' : renders'[i].disconnected]_vars
    /\ [][showDisconnectedHint' /\ renders' # <<>>
               => document'.body.disconnected]_vars

C6_Witness ==
    /\ showDisconnectedHint
    /\ event = "message"
    /\ renders # <<>>
    /\ document.body.disconnected

\* C7: a close event and an error event make the same transition from any
\* state: the flag becomes true, both counters and the sent frames stay, and
\* exactly one render of the current counters with disconnected = TRUE
\* follows; when the flag is already true (a close after an error, any
\* repetition) the page's state does not change at all.
C7_CloseAndErrorAreOneTransition ==
    [][event' \in Disconnects =>
         LET winRate == Divide(victoryCount, lossCount + victoryCount)
         IN  /\ showDisconnectedHint'
             /\ victoryCount' = victoryCount
             /\ lossCount' = lossCount
             /\ sent' = sent
             /\ renders' = <<[winRate |-> winRate, disconnected |-> TRUE]>>
             /\ document' = [title   |-> renderTitle(winRate),
                             body    |-> renderContent(winRate, TRUE),
                             favicon |-> renderFavicon(winRate)]
             /\ ~fault'
             /\ showDisconnectedHint => document' = document]_vars

C7_Witness ==
    /\ event = "error"
    /\ showDisconnectedHint
    /\ victoryCount + lossCount > 0
    /\ Len(renders) = 1

\* C8: both counters start at 0, are never negative, and no event ever
\* lowers or resets either of them.
C8_CountersOnlyGrow ==
    /\ (victoryCount = 0 /\ lossCount = 0)
    /\ [](victoryCount >= 0 /\ lossCount >= 0)
    /\ [][victoryCount' >= victoryCount /\ lossCount' >= lossCount]_vars

C8_Witness ==
    /\ victoryCount > 0
    /\ lossCount > 0
    /\ event \in Disconnects

\* C9 as stated: after the open event exactly one frame has been written to
\* the socket, in both variants.
C9_OneWriteOnOpen == opened => Len(sent) = 1

\* C9, amended: the open event writes the handshake once, one frame in
\* Variant A and two frames in Variant B; nothing is written before it and
\* no other event ever writes to the socket.
C9_OneHandshakeOnOpen ==
    /\ [](Len(sent) = IF ~opened THEN 0 ELSE IF variant = "A" THEN 1 ELSE 2)
    /\ [][sent' # sent => (event' = "open" /\ ~opened /\ opened')]_vars

C9_Witness ==
    /\ opened
    /\ variant = "B"
    /\ Len(sent) = 2
    /\ event \in Disconnects

HandshakeA ==
    <<JSON_stringify(Arr(<<
        Obj([jsonrpc |-> Str("2.0"), method |-> Str("get_battle_results"), id |-> Num(1)]),
        Obj([jsonrpc |-> Str("2.0"), method |-> Str("subscribe"), id |-> Num(2)])>>))>>

HandshakeB ==
    <<JSON_stringify(Obj([messageType |-> Str("REPLAY"), payload |-> Obj(NoFields)])),
      JSON_stringify(Obj([messageType |-> Str("SUBSCRIBE"), payload |-> Obj(NoFields)]))>>

\* C10: all that is ever sent is the handshake of the open handler: in
\* Variant A one frame, the array of the get_battle_results request (id 1)
\* and the subscribe request (id 2); in Variant B the REPLAY frame and then
\* the SUBSCRIBE frame.  The open handler changes neither counter nor the
\* flag, and the message, close and error handlers send nothing.
C10_OnlyTheHandshakeIsSent ==
    /\ [](sent = IF ~opened THEN <<>>
                 ELSE IF variant = "A" THEN HandshakeA ELSE HandshakeB)
    /\ [][/\ event' = "open"
               => /\ victoryCount' = victoryCount
                  /\ lossCount' = lossCount
                  /\ showDisconnectedHint' = showDisconnectedHint
          /\ event' # "open" => sent' = sent]_vars

C10_Witness ==
    /\ variant = "A"
    /\ sent = HandshakeA
    /\ event = "message"
    /\ victoryCount + lossCount > 0

\* what the page holds between two events
Page == <<victoryCount, lossCount, showDisconnectedHint, document, sent>>

\* the last frame was well-formed JSON of a single object
IsObjectFrame == data.wellFormed /\ data.value.t = "object"

\* Variant A: an object with an error that is neither a subscription
\* notification nor a result reply with id 1
IsErrorA ==
    /\ IsObjectFrame
    /\ "error" \in DOMAIN data.value.f
    /\ Prop(data.value, "method") # Str("subscription")
    /\ ~("result" \in DOMAIN data.value.f /\ Prop(data.value, "id") = Num(1))

\* Variant B: a frame with messageType ERROR
IsErrorB == IsObjectFrame /\ Prop(data.value, "messageType") = Str("ERROR")

\* C11: a protocol error reported by the server (Variant A: a message with
\* an error field that is no notification and no id-1 result reply; Variant
\* B: messageType ERROR) is logged and nothing else: the handler does not
\* fault, delivers and renders nothing, and the counters, the flag, the
\* document and the sent frames are as before, so later frames find the page
\* as if the error had not arrived.
C11_ProtocolErrorIsOnlyLogged ==
    [][(/\ event' = "message"
        /\ (variant = "A" /\ IsErrorA') \/ (variant = "B" /\ IsErrorB'))
       => /\ Page' = Page
          /\ Len(logged') = 1
          /\ ~fault'
          /\ delivered' = <<>>
          /\ renders' = <<>>]_vars

C11_Witness ==
    /\ variant = "A"
    /\ event = "message"
    /\ IsErrorA
    /\ Prop(data.value, "id") = Num(1)
    /\ Len(logged) = 1
    /\ victoryCount + lossCount > 0

\* C12: a frame that is not JSON faults the handler invocation that receives
\* it and changes nothing: counters, flag, document and sent frames are as
\* before, nothing is delivered, rendered or logged, so every later event is
\* handled from the same page state as if the frame had never arrived.
C12_MalformedFrameChangesNothing ==
    [][(event' = "message" /\ ~data'.wellFormed)
       => /\ fault'
          /\ Page' = Page
          /\ delivered' = <<>>
          /\ renders' = <<>>
          /\ logged' = <<>>]_vars

C12_Witness ==
    /\ event = "message"
    /\ ~data.wellFormed
    /\ fault
    /\ victoryCount + lossCount > 0

\* what a handler leaves behind that the user or a later handler can see:
\* the counters, the flag, the document, and the inputs of its renders
Outcome(s) ==
    <<s.victoryCount, s.lossCount, s.showDisconnectedHint, s.document, s.renders>>

\* C13: the two variants differ only in the wire protocol.  Both start with
\* the same render, and from every page state a battle result delivered as a
\* Variant A subscription notification and the same result delivered as a
\* Variant B BATTLE_RESULT frame lead to the same counters, flag, document
\* and renders, as does a close or error event; hence any sequence of
\* results and disconnects drives both through the same sequence of states
\* and render inputs.
C13_VariantsAgree ==
    /\ Outcome(renderA(Entry)) = Outcome(renderB(Entry))
    /\ Outcome(onDisconnectA(Entry)) = Outcome(onDisconnectB(Entry))
    /\ \A r \in BattleResults :
         Outcome(onMessageA(Entry, [data |-> JSON_stringify(Notification(r))]))
           = Outcome(onMessageB(Entry, [data |-> JSON_stringify(
                        Envelope(Str("BATTLE_RESULT"), Object([result |-> r])))]))

C13_Witness ==
    /\ variant = "B"
    /\ event = "message"
    /\ Len(delivered) = 1
    /\ BonusTypeOf(delivered[1]) = Num(24)
    /\ showDisconnectedHint
    /\ lossCount = 2

\* render() of the script the page runs
RenderNow(s) == IF variant = "A" THEN renderA(s) ELSE renderB(s)

\* C14: render changes no session state and is idempotent: with the current
\* counters and either value of the flag, a render leaves victoryCount,
\* lossCount, showDisconnectedHint and the sent frames as they are, and a
\* second render right after it gets the same inputs and produces the same
\* title, body and favicon.
C14_RenderIsIdempotent ==
    \A hint \in BOOLEAN :
      LET s     == [Entry EXCEPT !.showDisconnectedHint = hint]
          once  == RenderNow(s)
          twice == RenderNow(once)
      IN  /\ once.victoryCount = victoryCount /\ twice.victoryCount = victoryCount
          /\ once.lossCount = lossCount /\ twice.lossCount = lossCount
          /\ once.showDisconnectedHint = hint /\ twice.showDisconnectedHint = hint
          /\ once.sent = sent /\ twice.sent = sent
          /\ Len(twice.renders) = 2
          /\ twice.renders[2] = twice.renders[1]
          /\ twice.document = once.document

C14_Witness ==
    /\ event = "close"
    /\ showDisconnectedHint
    /\ victoryCount = 1 /\ lossCount = 1
    /\ document.body = renderContent(Divide(1, 2), TRUE)
    /\ Len(renders) = 1

\* w is the quotient v / (v + l): NaN for 0/0, else the same ratio
IsWinRateOf(w, v, l) ==
    IF v + l = 0 THEN w = NaN
    ELSE w.d > 0 /\ w.n * (v + l) = v * w.d

\* C15: between events (at startup and after every handler, whether it
\* returned or faulted) the page shows the current state: title, body and
\* favicon were rendered from the win rate of the current victoryCount and
\* lossCount, the body with the current value of the flag, and the last
\* render of the last handler, if it rendered, had exactly these inputs.
C15_DisplayIsCurrent ==
    /\ IsWinRateOf(document.title.winRate, victoryCount, lossCount)
    /\ IsWinRateOf(document.body.winRate, victoryCount, lossCount)
    /\ IsWinRateOf(document.favicon.winRate, victoryCount, lossCount)
    /\ document.body.disconnected = showDisconnectedHint
    /\ renders # <<>> =>
         /\ IsWinRateOf(renders[Len(renders)].winRate, victoryCount, lossCount)
         /\ renders[Len(renders)].disconnected = showDisconnectedHint

C15_Witness ==
    /\ variant = "A"
    /\ event = "message"
    /\ fault
    /\ delivered # <<>>
    /\ InScope(delivered[1])
    /\ renders # <<>>

\* the frames ms received one after the other, each by its own invocation
\* of Variant A's onMessage; the trace runs on over the invocations
RECURSIVE OneByOneA(_, _)
OneByOneA(s, ms) ==
    IF ms = <<>> THEN s
    ELSE OneByOneA(onMessageA([s EXCEPT !.fault = FALSE],
                              [data |-> JSON_stringify(Head(ms))]), Tail(ms))

\* the same, ending with the first frame whose handling faults
RECURSIVE OneByOneUntilFaultA(_, _)
OneByOneUntilFaultA(s, ms) ==
    IF ms = <<>> \/ s.fault THEN s
    ELSE OneByOneUntilFaultA(onMessageA(s, [data |-> JSON_stringify(Head(ms))]), Tail(ms))

\* the counters a handler run ends with, the results it delivered and its renders
Course(s) == <<s.victoryCount, s.lossCount, s.delivered, s.renders>>

IsBatchFrame == data.wellFormed /\ data.value.t = "array"

\* the last frame was a single reply to get_battle_results with a list of results
IsResultsReplyFrame ==
    /\ IsObjectFrame
    /\ Prop(data.value, "method") # Str("subscription")
    /\ Prop(data.value, "id") = Num(1)
    /\ Prop(Prop(data.value, "result"), "battleResults").t = "array"

NotificationsOf(list) == [i \in DOMAIN list |-> Notification(list[i])]

ReplyAsNotifications ==
    (variant = "A" /\ event' = "message" /\ IsResultsReplyFrame')
      => <<victoryCount', lossCount', delivered', renders'>>
           = Course(OneByOneA(Entry, NotificationsOf(
                      Prop(Prop(data'.value, "result"), "battleResults").a)))

\* C16 as stated: an array frame [m1..mn] gives the same counters,
\* deliveries and renders as the n frames m1..mn received one by one, and an
\* id-1 reply with battleResults [r1..rk] the same as k notifications.
C16_BatchingIsTransparent ==
    [][/\ (variant = "A" /\ event' = "message" /\ IsBatchFrame')
          => <<victoryCount', lossCount', delivered', renders'>>
               = Course(OneByOneA(Entry, data'.value.a))
       /\ ReplyAsNotifications]_vars

\* C16, amended: an array frame [m1..mn] gives the same counters, deliveries
\* and renders, in the same order, as the single frames m1..mk received one
\* by one, where mk is the first element whose handling faults (all n when
\* none faults): the elements after a faulting one are not handled.  An id-1
\* reply with battleResults [r1..rk] gives the same as k notifications
\* carrying r1..rk in that order.
C16_BatchingIsTransparentUpToAFault ==
    [][/\ (variant = "A" /\ event' = "message" /\ IsBatchFrame')
          => <<victoryCount', lossCount', delivered', renders'>>
               = Course(OneByOneUntilFaultA(Entry, data'.value.a))
       /\ ReplyAsNotifications]_vars

C16_Witness ==
    /\ variant = "A"
    /\ event = "message"
    /\ IsBatchFrame
    /\ Len(data.value.a) = 2
    /\ Len(renders) = 2
    /\ victoryCount = 1 /\ lossCount = 1

\* the last frame was well-formed JSON of one message: any value but null
\* (and, in Variant A, but an array, which is a batch)
IsMessageFrame == data.wellFormed /\ data.value.t \notin {"null", "undefined"}

\* Variant A: no subscription notification, no result reply with id 1, no error
IsUnrecognisedA ==
    /\ IsMessageFrame
    /\ data.value.t # "array"
    /\ Prop(data.value, "method") # Str("subscription")
    /\ ~(Prop(data.value, "result") # Undefined /\ Prop(data.value, "id") = Num(1))
    /\ Prop(data.value, "error") = Undefined

\* Variant B: a messageType that is neither BATTLE_RESULT nor ERROR, or none
IsUnrecognisedB ==
    /\ IsMessageFrame
    /\ Prop(data.value, "messageType") \notin {Str("BATTLE_RESULT"), Str("ERROR")}

C18_ClassifyingNeverFaults ==
    \A i \in DOMAIN delivered :
      LET r == delivered[i]
      IN  /\ TypeError \notin {getBattleTypeA(r), getWinnerTeamA(r), getTeamA(r),
                               getBattleTypeB(r), getWinnerTeamB(r), getTeamB(r)}
          /\ {isRandomBattleA(r), isVictoryA(r),
              isRandomBattleB(r), isVictoryB(r)} \subseteq BOOLEAN
          /\ BonusTypeOf(r) = Undefined
               => (~isRandomBattleA(r) /\ ~isRandomBattleB(r))

C18_Witness ==
    /\ variant = "B"
    /\ event = "message"
    /\ delivered = <<Obj([common |-> Obj([bonusType |-> Num(1), winnerTeam |-> Num(1)])])>>
    /\ ~fault
    /\ lossCount = 1

\* w is a number between 0 and 1
IsProportion(w) == w.d > 0 /\ 0 <= w.n /\ w.n <= w.d

\* the win rates now on the page and the one of the last handler's last render
WinRatesShown ==
    {document.title.winRate, document.body.winRate, document.favicon.winRate}
      \cup (IF renders = <<>> THEN {} ELSE {renders[Len(renders)].winRate})

\* C19: the win rate given to the renderer is NaN (0/0) exactly when
\* victoryCount = lossCount = 0, which is the case of the startup render and
\* of a render caused by a close or error before any in-scope result;
\* otherwise it equals victoryCount / (victoryCount + lossCount) and lies
\* between 0 and 1; a render that follows a counter increment never gets NaN.
C19_WinRateIsNaNOnlyWithoutGames ==
    /\ \A w \in WinRatesShown :
         /\ w = NaN <=> (victoryCount = 0 /\ lossCount = 0)
         /\ w # NaN =>
              /\ IsProportion(w)
              /\ w.n * (victoryCount + lossCount) = victoryCount * w.d
    /\ event = "init" => renders = <<[winRate |-> NaN, disconnected |-> FALSE]>>
    /\ event = "message" =>
         \A i \in DOMAIN renders : renders[i].winRate # NaN /\ IsProportion(renders[i].winRate)

C19_Witness ==
    /\ opened
    /\ event \in Disconnects
    /\ victoryCount = 0 /\ lossCount = 0
    /\ renders = <<[winRate |-> NaN, disconnected |-> TRUE]>>
    /\ document.title.winRate = NaN

\* handling message m of a Variant A frame faults: m is null, a subscription
\* notification without params, or an id-1 result reply without a list
FaultsA(m) ==
    \/ m.t \in {"null", "undefined"}
    \/ /\ Prop(m, "method") = Str("subscription")
       /\ Prop(m, "params") \in {Undefined, Null}
    \/ /\ Prop(m, "method") # Str("subscription")
       /\ Prop(m, "result").t = "object"
       /\ Prop(m, "id") = Num(1)
       /\ Prop(Prop(m, "result"), "battleResults").t # "array"

\* the battle results message m carries, in order
CarriedA(m) ==
    IF Prop(m, "method") = Str("subscription")
    THEN <<Prop(Prop(m, "params"), "battleResult")>>
    ELSE IF Prop(m, "result").t = "object" /\ Prop(m, "id") = Num(1)
    THEN Prop(Prop(m, "result"), "battleResults").a
    ELSE <<>>

\* the results carried by the elements before the first faulting one
RECURSIVE CarriedBeforeFault(_)
CarriedBeforeFault(ms) ==
    IF ms = <<>> \/ FaultsA(Head(ms)) THEN <<>>
    ELSE CarriedA(Head(ms)) \o CarriedBeforeFault(Tail(ms))

\* C20: handling a Variant A frame is prefix-consistent.  The handler of a
\* well-formed frame faults exactly when one of its elements does (a null
\* element, a notification without params, an id-1 reply without a
\* battleResults list); then exactly the results carried by the elements
\* before the first such element were delivered, in order, the counters rose
\* by the number of in-scope results among them, each of which was rendered
\* (the last render showing the final counters), and no result after the
\* fault point was delivered or counted.
C20_FaultKeepsThePrefix ==
    [][(variant = "A" /\ event' = "message" /\ data'.wellFormed) =>
         LET ms     == IF data'.value.t = "array" THEN data'.value.a
                                                  ELSE <<data'.value>>
             before == CarriedBeforeFault(ms)
         IN  /\ fault' <=> \E i \in DOMAIN ms : FaultsA(ms[i])
             /\ fault' =>
                  /\ delivered' = before
                  /\ (victoryCount' + lossCount') - (victoryCount + lossCount)
                       = InScopeCount(before)
                  /\ victoryCount' >= victoryCount /\ lossCount' >= lossCount
                  /\ Len(renders') = InScopeCount(before)
                  /\ renders' # <<>> =>
                       IsWinRateOf(renders'[Len(renders')].winRate,
                                   victoryCount', lossCount')
                  /\ showDisconnectedHint' = showDisconnectedHint]_vars

C20_Witness ==
    /\ variant = "A"
    /\ event = "message"
    /\ fault
    /\ IsBatchFrame
    /\ Len(data.value.a) = 2
    /\ FaultsA(data.value.a[2])
    /\ Len(delivered) = 2
    /\ Len(renders) = 1

====
